---- MODULE Spec2Model ----
(***************************************************************************)
(* Real-time audio session and streaming-transcription engine.            *)
(*                                                                         *)
(*   STTProvider          src/src/stt/stt_base.py                          *)
(*   AudioStreamManager   src/src/streaming/audio_streaming.py             *)
(*   transcript_callback  src/src/api/telephony.py (CallHandler)           *)
(*                                                                         *)
(* Each component has its own next-state relation over the shared variable *)
(* tuple; a component that is not stepping leaves its variables unchanged. *)
(***************************************************************************)
EXTENDS Integers, Sequences, FiniteSets, TLC

(***************************************************************************)
(* Program constants.                                                      *)
(***************************************************************************)
\* whisper.audio.SAMPLE_RATE, stt_base.py:50
SampleRate == 16000
\* "at least 2 seconds of audio", stt_base.py:134
MinBufferSeconds == 2
\* "every 3rd chunk", stt_base.py:134
PassEvery == 3
\* max_buffer_duration, stt_base.py:163
MaxBufferSeconds == 10

MinBufferSamples == MinBufferSeconds * SampleRate
MaxBufferSamples == MaxBufferSeconds * SampleRate

(***************************************************************************)
(* Bounds of the model.                                                    *)
(***************************************************************************)
\* number of add_audio_chunk calls made on one STTProvider
MaxChunks == 4
\* number of loop threads one STTProvider may spawn (calls of start that pass
\* the is_running guard)
MaxThreads == 2
\* number of stop() calls on one STTProvider
MaxStops == 2

\* sizes (samples) of the chunks the callers hand in: 1 s (two of them reach the
\* 2.0 s threshold exactly) and 10.5 s (more than the cap on its own)
ChunkSizes == {SampleRate, 10 * SampleRate + SampleRate \div 2}

ThreadIds == 1..MaxThreads

\* max_idle_time, audio_streaming.py:229
MaxIdleTime == 300
\* seconds between two passes of _process_audio_loop, audio_streaming.py:304
ProcessInterval == 2

\* number of connect calls on one AudioStreamManager
MaxConnects == 2
\* number of add_audio_chunk calls on one AudioStreamManager
MaxMgrChunks == 3
\* seconds the clock runs for
MaxElapsed == 301
\* the clock when the manager is constructed
StartNow == 1000
\* steps of the clock: idle times of exactly MaxIdleTime and of one second more
TickSteps == {MaxIdleTime \div 2, MaxIdleTime \div 2 + 1}

\* seconds between two replies, telephony.py:200
MinInterval == 5
\* shortest trimmed text that is processed, telephony.py:193
MinTextLen == 5

\* number of results handed to one transcription_callback_wrapper
MaxResults == 3
\* seconds the handler's clock runs for
MaxCbElapsed == 8
\* steps of the handler's clock
CbTickSteps == {2, 3}
\* lengths of the trimmed text of a result
TextLens == {MinTextLen - 1, MinTextLen}

ConnIds == {"c1", "c2"}
SessionIds == {"s1"}
\* number of frames written to one recording
MaxFrames == 2

\* settings.GOOGLE_TTS_DEFAULT_VOICE_NAME and _LOCALE (config.py:25-26), as
\* strings of one character each
DefaultVoice == <<"d">>
DefaultLanguage == <<"e">>
\* texts and voices synthesize is called with
TtsTexts == {<<"a">>, <<"b">>}
TtsVoices == {DefaultVoice, <<"v">>}
\* number of synthesize calls on one provider
MaxSynths == 3

\* the channels of the ARI client, the channel events that end a call
\* (ari_client.py:139-142) and the threads that run _end_call
AriChannels == {"ch1"}
AriEvents == {"StasisEnd", "ChannelHangupRequest", "ChannelDtmfReceived"}
AriCallers == {"event", "stop"}
\* number of channel events after StasisStart
MaxAriEvents == 3
\* number of delayed_hangup threads
MaxDelayed == 2

\* the Unique-ID headers of the FreeSWITCH events, and what the
\* variable_session_id header of a CHANNEL_CREATE holds
UniqueIds == {"u1", "u2"}
ZeipoSessionIds == {"absent", "z1"}
\* number of events the listener processes
MaxSwEvents == 4

VARIABLES
    \* ---- STTProvider (stt_base.py:54-64) ----
    is_running,        \* self.is_running
    audio_queue,       \* self.audio_queue: FIFO of chunks [id, n]
    audio_buffer,      \* self.audio_buffer: sequence of [id, n] pieces, n samples of chunk id
    processed_chunks,  \* self.processed_chunks
    transcript,        \* self.transcript / self.segments: the audio the text was decoded from
    threads,           \* the _process_stream threads: [pc, audio, failed]
    adder,             \* the thread inside add_audio_chunk: [pc, chunk]
    stopper,           \* the thread inside stop(): [pc, audio]
    chunks_added,      \* number of add_audio_chunk calls so far
    covered,           \* ids of the chunks some model.transcribe call was given
    delivered,         \* every call of callback_fn: [res, late, failed]
    stop_returns,      \* what each stop() call returned: [res, inferred, run, keys]
    \* ---- AudioStreamManager (audio_streaming.py:25-31, 262-267) ----
    active_connections, \* self.active_connections: connection_id -> connection_data
    now,               \* datetime.now() / time.time(), in seconds
    is_streaming,      \* self.is_streaming ("unset" before the first start)
    mgr_audio_buffer,  \* self.audio_buffer of the manager: list of chunk sizes
    last_process_time, \* self.last_process_time
    streaming_callback, \* self.streaming_callback: the connection whose wrapper it is
    process_threads,   \* number of live _process_audio_loop threads
    connects,          \* number of connect calls so far
    mgr_chunks,        \* number of add_audio_chunk calls on the manager so far
    disc_begun,        \* connections a disconnect call has begun to finalize
    last_pass,         \* the last pass a _process_audio_loop thread began: [fired, samples]
    ret,               \* outcome of the last call on the manager: [op, id, result, stale, steps]
    \* ---- transcription_callback_wrapper and transcript_callback ----
    wall_time,         \* time.time() / datetime.now() of the handler, in seconds
    results,           \* the results the background thread has produced, in order
    wrapper,           \* the background thread inside the wrapper: [pc, seq]
    wrapper_data,      \* the wrapper's connection_data: [transcription_results, last_activity]
    ready,             \* coroutines posted to the event loop and not yet started
    awaiting,          \* transcript_callback coroutines suspended in their first send
    client_connected,  \* websocket.client_state == WebSocketState.CONNECTED
    outbound,          \* messages handed to the websocket, in order: [type, seq]
    ext_calls,         \* results transcript_callback was entered with, in order
    last_response_time, \* transcript_callback.last_response_time
    intent_calls,      \* calls of intent_processor.process_text: [at, seq]
    debounce,          \* the last debounce test: [at, last, admitted, seq], and the
                       \* results the tests so far have suppressed (dropped)
    \* ---- GoogleTTSProvider and its TTSAudioCache ----
    tts_constructed,   \* GoogleTTSProvider() has been constructed
    cache_index,       \* self.cache.cache_index: key -> path
    cache_files,       \* the files of the cache directory: path -> audio
    tts_calls,         \* number of client.synthesize_speech calls so far
    tts_synths,        \* number of synthesize calls so far
    tts_served,        \* arguments the service has delivered audio for, since the
                       \* last clear_cache or file removal
    tts_ok,            \* arguments -> audio of the first synthesize that returned,
                       \* since the last clear_cache or file removal
    tts_ret,           \* outcome of the last synthesize: [args, result, audio, calls]
    \* ---- ZeipoARIClient (ari_client.py:119-120) ----
    active_calls,      \* self.active_calls: the channel ids in it
    audio_streams,     \* self.audio_streams: the channel ids in it
    stream_stops,      \* channel id -> number of AudioStream.stop() calls
    ari_callers,       \* the threads that run _end_call: [pc, ch, delay, todo]
    delayed,           \* the delayed_hangup threads: [pc, ch]
    ari_events,        \* the channel events handled after StasisStart, in order
    ari_started,       \* channels that have entered Stasis
    ari_ended,         \* channels an _end_call has found in active_calls
    ari_raised,        \* exceptions that left _end_call or delayed_hangup: [thread, at]
    \* ---- SignalWireClient (signalwire_client.py:31-32) ----
    sw_active_calls,   \* self.active_calls: key -> [state, session_id]
    sw_callbacks,      \* the _trigger_callback calls, in order: [type, session_id]
    sw_events,         \* number of events processed so far
    sw_open,           \* Unique-ID -> key of its CHANNEL_CREATE, until its CHANNEL_HANGUP
    sw_created,        \* Unique-IDs a CHANNEL_CREATE was processed for
    sw_last            \* the last event processed: [name, uid]

sttVars == <<is_running, audio_queue, audio_buffer, processed_chunks, transcript,
             threads, adder, stopper, chunks_added, covered, delivered, stop_returns>>

mgrVars == <<active_connections, now, is_streaming, mgr_audio_buffer,
             last_process_time, streaming_callback, process_threads, connects,
             mgr_chunks, disc_begun, last_pass, ret>>

cbVars == <<wall_time, results, wrapper, wrapper_data, ready, awaiting,
            client_connected, outbound, ext_calls, last_response_time, intent_calls,
            debounce>>

ttsVars == <<tts_constructed, cache_index, cache_files, tts_calls, tts_synths,
             tts_served, tts_ok, tts_ret>>

\* the components outside the speech-to-text path
ariVars == <<active_calls, audio_streams, stream_stops, ari_callers, delayed,
             ari_events, ari_started, ari_ended, ari_raised>>

swVars == <<sw_active_calls, sw_callbacks, sw_events, sw_open, sw_created, sw_last>>

extVars == <<ttsVars, ariVars, swVars>>

vars == <<sttVars, mgrVars, cbVars, extVars>>

\* what a step of one component leaves alone
otherVars == <<sttVars, mgrVars, cbVars>>
notStt == <<mgrVars, cbVars, extVars>>
notMgr == <<sttVars, cbVars, extVars>>
notCb == <<sttVars, mgrVars, extVars>>
notTts == <<otherVars, ariVars, swVars>>
notAri == <<otherVars, ttsVars, swVars>>
notSw == <<otherVars, ttsVars, ariVars>>

(***************************************************************************)
(* Helpers on audio.                                                       *)
(***************************************************************************)
RECURSIVE Samples(_)
\* len(self.audio_buffer)
Samples(buf) ==
    IF buf = <<>> THEN 0 ELSE Head(buf).n + Samples(Tail(buf))

RECURSIVE KeepLast(_, _)
\* self.audio_buffer[-k:] : the most recent k samples
KeepLast(buf, k) ==
    IF buf = <<>> \/ k <= 0 THEN <<>>
    ELSE LET last == buf[Len(buf)]
             init == SubSeq(buf, 1, Len(buf) - 1)
         IN IF last.n >= k
            THEN <<[id |-> last.id, n |-> k]>>
            ELSE Append(KeepLast(init, k - last.n), last)

\* stt_base.py:163-167
TrimBuffer(buf) ==
    IF Samples(buf) > MaxBufferSamples THEN KeepLast(buf, MaxBufferSamples) ELSE buf

\* stt_base.py:131-134: buffer_duration >= 2.0 and self.processed_chunks % 3 == 0
ShouldProcess(buf, processed) ==
    /\ Samples(buf) >= MinBufferSamples
    /\ processed % PassEvery = 0

\* the empty transcript of __init__ (stt_base.py:63-64)
NoTranscript == <<>>

\* failed: the passes of the thread that ended in the handler of line 157
ThreadIdle == [pc |-> "unborn", audio |-> <<>>, failed |-> 0]

(***************************************************************************)
(* STTProvider                                                             *)
(***************************************************************************)
STTInit ==
    /\ is_running = FALSE
    /\ audio_queue = <<>>
    /\ audio_buffer = <<>>
    /\ processed_chunks = 0
    /\ transcript = NoTranscript
    /\ threads = [t \in ThreadIds |-> ThreadIdle]
    /\ adder = [pc |-> "idle", chunk |-> [id |-> 0, n |-> 0]]
    /\ stopper = [pc |-> "idle", audio |-> <<>>]
    /\ chunks_added = 0
    /\ covered = {}
    /\ delivered = <<>>
    /\ stop_returns = <<>>

\* ids of the chunks a piece of audio holds samples of
ChunkIdsOf(buf) == {buf[i].id : i \in 1..Len(buf)}

\* while self.is_running (stt_base.py:119), evaluated where an iteration ends
LoopAgain(running) == IF running THEN "get" ELSE "exited"

\* start(): stt_base.py:73-88
Start ==
    /\ ~is_running
    /\ \E t \in ThreadIds :
        /\ threads[t].pc = "unborn"
        /\ \A u \in ThreadIds : u < t => threads[u].pc # "unborn"
        /\ threads' = [threads EXCEPT ![t] = [pc |-> "get", audio |-> <<>>, failed |-> 0]]
    /\ is_running' = TRUE
    /\ UNCHANGED <<audio_queue, audio_buffer, processed_chunks, transcript, adder,
                   stopper, chunks_added, covered, delivered, stop_returns>>
    /\ UNCHANGED notStt

\* add_audio_chunk(): the test of is_running, stt_base.py:70
AddCheck ==
    /\ adder.pc = "idle"
    /\ chunks_added < MaxChunks
    /\ \E n \in ChunkSizes :
        /\ chunks_added' = chunks_added + 1
        /\ IF is_running
           THEN adder' = [pc |-> "put", chunk |-> [id |-> chunks_added + 1, n |-> n]]
           ELSE adder' = adder
    /\ UNCHANGED <<is_running, audio_queue, audio_buffer, processed_chunks, transcript,
                   threads, stopper, covered, delivered, stop_returns>>
    /\ UNCHANGED notStt

\* add_audio_chunk(): self.audio_queue.put, stt_base.py:71
AddPut ==
    /\ adder.pc = "put"
    /\ audio_queue' = Append(audio_queue, adder.chunk)
    /\ adder' = [pc |-> "idle", chunk |-> [id |-> 0, n |-> 0]]
    /\ UNCHANGED <<is_running, audio_buffer, processed_chunks, transcript, threads,
                   stopper, chunks_added, covered, delivered, stop_returns>>
    /\ UNCHANGED notStt

\* _process_stream: the while test finds is_running cleared, stt_base.py:119
\* (a thread that is inside queue.get at that time may still be handed a chunk:
\* LoopTake)
LoopExit(t) ==
    /\ threads[t].pc = "get"
    /\ ~is_running
    /\ threads' = [threads EXCEPT ![t].pc = "exited"]
    /\ UNCHANGED <<is_running, audio_queue, audio_buffer, processed_chunks, transcript,
                   adder, stopper, chunks_added, covered, delivered, stop_returns>>
    /\ UNCHANGED notStt

\* _process_stream: a chunk is dequeued and appended; either the pass is fired
\* (the thread enters model.transcribe with the whole buffer) or the iteration
\* ends with the count and the trim, stt_base.py:123-134 and 160-170
LoopTake(t) ==
    /\ threads[t].pc = "get"
    /\ audio_queue # <<>>
    /\ audio_queue' = Tail(audio_queue)
    /\ LET buf == Append(audio_buffer, Head(audio_queue))
       IN IF ShouldProcess(buf, processed_chunks)
          THEN /\ audio_buffer' = buf
               /\ threads' = [threads EXCEPT ![t].pc = "infer", ![t].audio = buf]
               /\ covered' = covered \cup ChunkIdsOf(buf)
               /\ UNCHANGED processed_chunks
          ELSE /\ audio_buffer' = TrimBuffer(buf)
               /\ processed_chunks' = processed_chunks + 1
               /\ threads' = [threads EXCEPT ![t].pc = LoopAgain(is_running)]
               /\ UNCHANGED covered
    /\ UNCHANGED <<is_running, transcript, adder, stopper, chunks_added,
                   delivered, stop_returns>>
    /\ UNCHANGED notStt

\* the callback call of a finished pass, stt_base.py:147-153
Deliver(log, res, running, failed) ==
    Append(log, [res |-> res, late |-> ~running, failed |-> failed])

\* _process_stream: model.transcribe returns; transcript updated, callback
\* called, both counts, trim, stt_base.py:137-170
LoopPassDone(t) ==
    /\ threads[t].pc = "infer"
    /\ transcript' = threads[t].audio
    /\ delivered' = Deliver(delivered, threads[t].audio, is_running, threads[t].failed)
    /\ processed_chunks' = processed_chunks + 2
    /\ audio_buffer' = TrimBuffer(audio_buffer)
    /\ threads' = [threads EXCEPT ![t].pc = LoopAgain(is_running), ![t].audio = <<>>]
    /\ UNCHANGED <<is_running, audio_queue, adder, stopper, chunks_added, covered,
                   stop_returns>>
    /\ UNCHANGED notStt

\* a pass whose exception ends the thread
LoopPassFail_Fatal(t) ==
    /\ threads[t].pc = "infer"
    /\ processed_chunks' = processed_chunks + 1
    /\ audio_buffer' = TrimBuffer(audio_buffer)
    /\ threads' = [threads EXCEPT ![t].pc = "exited", ![t].audio = <<>>,
                                  ![t].failed = @ + 1]
    /\ UNCHANGED <<is_running, audio_queue, transcript, adder, stopper, chunks_added,
                   covered, delivered, stop_returns>>
    /\ UNCHANGED notStt

\* _process_stream: model.transcribe raises; logged, count, trim,
\* stt_base.py:157-170
LoopPassFail(t) ==
    /\ threads[t].pc = "infer"
    /\ processed_chunks' = processed_chunks + 1
    /\ audio_buffer' = TrimBuffer(audio_buffer)
    /\ threads' = [threads EXCEPT ![t].pc = LoopAgain(is_running), ![t].audio = <<>>,
                                  ![t].failed = @ + 1]
    /\ UNCHANGED <<is_running, audio_queue, transcript, adder, stopper, chunks_added,
                   covered, delivered, stop_returns>>
    /\ UNCHANGED notStt

\* number of times start() has set the transcriber running
Runs == Cardinality({t \in ThreadIds : threads[t].pc # "unborn"})

\* what a stop() call hands back, stt_base.py:95 and 113: a dict with the
\* keys text and segments
Returned(log, res, inferred) ==
    Append(log, [res |-> res, inferred |-> inferred, run |-> Runs,
                 keys |-> {"text", "segments"}])

\* stop() on a transcriber that is not running, stt_base.py:94-95
StopCached ==
    /\ stopper.pc = "idle"
    /\ Len(stop_returns) < MaxStops
    /\ ~is_running
    /\ stop_returns' = Returned(stop_returns, transcript, FALSE)
    /\ UNCHANGED <<is_running, audio_queue, audio_buffer, processed_chunks, transcript,
                   threads, adder, stopper, chunks_added, covered, delivered>>
    /\ UNCHANGED notStt

\* stop() on a running transcriber: the flag is cleared and the final pass is
\* entered when the buffer is not empty, stt_base.py:94-100 and 112-113
StopBegin ==
    /\ stopper.pc = "idle"
    /\ Len(stop_returns) < MaxStops
    /\ is_running
    /\ is_running' = FALSE
    /\ IF Samples(audio_buffer) > 0
       THEN /\ stopper' = [pc |-> "infer", audio |-> audio_buffer]
            /\ covered' = covered \cup ChunkIdsOf(audio_buffer)
            /\ UNCHANGED stop_returns
       ELSE /\ stop_returns' = Returned(stop_returns, transcript, FALSE)
            /\ UNCHANGED <<stopper, covered>>
    /\ UNCHANGED <<audio_queue, audio_buffer, processed_chunks, transcript, threads,
                   adder, chunks_added, delivered>>
    /\ UNCHANGED notStt

\* stop(): the final model.transcribe returns, stt_base.py:101-113
StopPassDone ==
    /\ stopper.pc = "infer"
    /\ transcript' = stopper.audio
    /\ stop_returns' = Returned(stop_returns, stopper.audio, TRUE)
    /\ stopper' = [pc |-> "idle", audio |-> <<>>]
    /\ UNCHANGED <<is_running, audio_queue, audio_buffer, processed_chunks, threads,
                   adder, chunks_added, covered, delivered>>
    /\ UNCHANGED notStt

\* stop(): the final model.transcribe raises, stt_base.py:109-113
StopPassFail ==
    /\ stopper.pc = "infer"
    /\ stop_returns' = Returned(stop_returns, transcript, TRUE)
    /\ stopper' = [pc |-> "idle", audio |-> <<>>]
    /\ UNCHANGED <<is_running, audio_queue, audio_buffer, processed_chunks, transcript,
                   threads, adder, chunks_added, covered, delivered>>
    /\ UNCHANGED notStt

(***************************************************************************)
(* AudioStreamManager                                                      *)
(***************************************************************************)
NoCall == [op |-> "none", id |-> "none", result |-> "none", stale |-> {}, steps |-> <<>>]
NoPass == [fired |-> FALSE, samples |-> 0]

MgrInit ==
    /\ active_connections = <<>>
    /\ now = StartNow
    /\ is_streaming = "unset"
    /\ mgr_audio_buffer = <<>>
    /\ last_process_time = 0
    /\ streaming_callback = "none"
    /\ process_threads = 0
    /\ connects = 0
    /\ mgr_chunks = 0
    /\ disc_begun = {}
    /\ last_pass = NoPass
    /\ ret = NoCall

\* connection_id in self.active_connections
Registered(conns, c) == c \in DOMAIN conns

\* del self.active_connections[connection_id]
Remove(conns, c) == [d \in (DOMAIN conns) \ {c} |-> conns[d]]

\* self.active_connections[connection_id] = connection_data
Store(conns, c, data) == [d \in (DOMAIN conns) \cup {c} |-> IF d = c THEN data ELSE conns[d]]

\* connection_data as connect builds it, audio_streaming.py:52-79 and 114: the
\* recording file is opened for writing (created or truncated, frames counted
\* in receive_audio calls) and the dict has no "transcriber" key
ConnectionData(c, s, t) ==
    [ session_id            |-> s,
      connection_id         |-> c,
      wave_file             |-> [open |-> TRUE, frames |-> 0],
      audio_buffer          |-> 0,
      start_time            |-> t,
      last_activity         |-> t,
      transcription_results |-> 0,
      is_finalized          |-> FALSE ]

\* connect(): audio_streaming.py:33-128, with start() of lines 262-273
Connect(c, s) ==
    /\ connects < MaxConnects
    /\ connects' = connects + 1
    /\ active_connections' = Store(active_connections, c, ConnectionData(c, s, now))
    /\ streaming_callback' = c
    /\ is_streaming' = "yes"
    /\ mgr_audio_buffer' = <<>>
    /\ last_process_time' = now
    /\ process_threads' = process_threads + 1
    /\ disc_begun' = disc_begun \ {c}
    /\ ret' = [op |-> "connect", id |-> c, result |-> "ok", stale |-> {}, steps |-> <<>>]
    /\ UNCHANGED <<now, mgr_chunks, last_pass>>
    /\ UNCHANGED notMgr

\* the body of receive_audio for a registered connection,
\* audio_streaming.py:144-180: the timestamp, the frames written to the WAV
\* file, then connection["transcriber"], whose KeyError the handler logs
Received(conn, t) ==
    LET stamped == [conn EXCEPT !.last_activity = t]
        written == [stamped EXCEPT !.wave_file.frames = @ + 1]
    IN IF ~conn.wave_file.open
       THEN [conn |-> stamped, result |-> "logged: file closed"]
       ELSE IF "transcriber" \in DOMAIN conn
            THEN [conn |-> [written EXCEPT !.audio_buffer = @ + 1], result |-> "ok"]
            ELSE [conn |-> written, result |-> "logged: KeyError"]

\* receive_audio(): audio_streaming.py:130-180
ReceiveAudio(c) ==
    /\ Registered(active_connections, c) =>
           active_connections[c].wave_file.frames < MaxFrames
    /\ IF ~Registered(active_connections, c)
       THEN /\ ret' = [op |-> "receive_audio", id |-> c, result |-> "logged: not found",
                       stale |-> {}, steps |-> <<>>]
            /\ UNCHANGED active_connections
       ELSE LET r == Received(active_connections[c], now)
            IN /\ active_connections' = Store(active_connections, c, r.conn)
               /\ ret' = [op |-> "receive_audio", id |-> c, result |-> r.result,
                          stale |-> {}, steps |-> <<>>]
    /\ UNCHANGED <<now, is_streaming, mgr_audio_buffer, last_process_time,
                   streaming_callback, process_threads, connects, mgr_chunks,
                   disc_begun, last_pass>>
    /\ UNCHANGED notMgr

\* disconnect(): audio_streaming.py:183-227, as the map it leaves, what the
\* call does and the cleanup steps it has done, in their order (lines 200, 204
\* and 223): connection["transcriber"] of line 200 raises KeyError before the
\* transcriber is stopped, the file closed or the entry deleted
Disconnected(conns, c) ==
    IF ~Registered(conns, c)
    THEN [conns |-> conns, result |-> "not found", steps |-> <<>>]
    ELSE IF "transcriber" \in DOMAIN conns[c]
         THEN [conns |-> Remove(conns, c), result |-> "summary",
               steps |-> <<"stop", "close", "remove">>]
         ELSE [conns |-> conns, result |-> "raised: KeyError", steps |-> <<>>]

Disconnect(c) ==
    /\ LET r == Disconnected(active_connections, c)
       IN /\ active_connections' = r.conns
          /\ ret' = [op |-> "disconnect", id |-> c, result |-> r.result, stale |-> {},
                     steps |-> r.steps]
    /\ disc_begun' = IF Registered(active_connections, c)
                     THEN disc_begun \cup {c} ELSE disc_begun
    /\ UNCHANGED <<now, is_streaming, mgr_audio_buffer, last_process_time,
                   streaming_callback, process_threads, connects, mgr_chunks, last_pass>>
    /\ UNCHANGED notMgr

\* audio_streaming.py:242-245
Stale(conns, t, max_idle_time) ==
    {c \in DOMAIN conns : t - conns[c].last_activity > max_idle_time}

RECURSIVE DisconnectAll_Abort(_, _)
\* a sweep that the exception of one disconnect ends
DisconnectAll_Abort(conns, todo) ==
    IF todo = {} THEN [conns |-> conns, begun |-> {}]
    ELSE LET c == CHOOSE x \in todo : TRUE
             r == Disconnected(conns, c)
             rest == IF r.result \in {"summary", "not found"}
                     THEN DisconnectAll_Abort(r.conns, todo \ {c})
                     ELSE [conns |-> r.conns, begun |-> {}]
         IN [conns |-> rest.conns, begun |-> {c} \cup rest.begun]

RECURSIVE DisconnectAll(_, _)
\* audio_streaming.py:248-253: disconnect is called for every stale connection
\* (begun), an exception of one call is logged and the next one is tried
DisconnectAll(conns, todo) ==
    IF todo = {} THEN [conns |-> conns, begun |-> {}]
    ELSE LET c == CHOOSE x \in todo : TRUE
             r == Disconnected(conns, c)
             rest == DisconnectAll(r.conns, todo \ {c})
         IN [conns |-> rest.conns, begun |-> {c} \cup rest.begun]

\* one iteration of cleanup_stale_connections(), audio_streaming.py:236-260
Sweep ==
    /\ LET stale == Stale(active_connections, now, MaxIdleTime)
           r == DisconnectAll(active_connections, stale)
       IN /\ active_connections' = r.conns
          /\ disc_begun' = disc_begun \cup r.begun
          /\ ret' = [op |-> "sweep", id |-> "none", result |-> "slept", stale |-> stale,
                     steps |-> <<>>]
    /\ UNCHANGED <<now, is_streaming, mgr_audio_buffer, last_process_time,
                   streaming_callback, process_threads, connects, mgr_chunks, last_pass>>
    /\ UNCHANGED notMgr

\* add_audio_chunk() of the manager: audio_streaming.py:275-280
MgrAddChunk(n) ==
    /\ mgr_chunks < MaxMgrChunks
    /\ mgr_chunks' = mgr_chunks + 1
    /\ IF is_streaming = "unset"
       THEN /\ ret' = [op |-> "add_audio_chunk", id |-> "none",
                       result |-> "raised: AttributeError", stale |-> {}, steps |-> <<>>]
            /\ UNCHANGED mgr_audio_buffer
       ELSE /\ ret' = [op |-> "add_audio_chunk", id |-> "none", result |-> "ok",
                       stale |-> {}, steps |-> <<>>]
            /\ mgr_audio_buffer' = IF is_streaming = "yes"
                                   THEN Append(mgr_audio_buffer, n)
                                   ELSE mgr_audio_buffer
    /\ UNCHANGED <<active_connections, now, is_streaming, last_process_time,
                   streaming_callback, process_threads, connects, disc_begun, last_pass>>
    /\ UNCHANGED notMgr

RECURSIVE Sum(_)
\* len(np.concatenate(self.audio_buffer))
Sum(list) == IF list = <<>> THEN 0 ELSE Head(list) + Sum(Tail(list))

\* the test of _process_audio_loop, audio_streaming.py:304
PassDue(t, last, list) == t - last >= ProcessInterval /\ list # <<>>

\* _process_audio_loop: a thread begins a pass, audio_streaming.py:301-320.
\* self.get_model is no attribute of AudioStreamManager: the AttributeError of
\* line 307 is logged at line 320, the buffer and last_process_time stay
MgrLoopPass ==
    /\ process_threads > 0
    /\ is_streaming = "yes"
    /\ PassDue(now, last_process_time, mgr_audio_buffer)
    /\ last_pass' = [fired |-> TRUE, samples |-> Sum(mgr_audio_buffer)]
    /\ UNCHANGED <<active_connections, now, is_streaming, mgr_audio_buffer,
                   last_process_time, streaming_callback, process_threads, connects,
                   mgr_chunks, disc_begun, ret>>
    /\ UNCHANGED notMgr

\* _process_audio_loop: while self.is_streaming fails, audio_streaming.py:301
MgrLoopExit ==
    /\ process_threads > 0
    /\ is_streaming = "no"
    /\ process_threads' = process_threads - 1
    /\ UNCHANGED <<active_connections, now, is_streaming, mgr_audio_buffer,
                   last_process_time, streaming_callback, connects, mgr_chunks,
                   disc_begun, last_pass, ret>>
    /\ UNCHANGED notMgr

\* the keys of what stop() of the manager hands back, audio_streaming.py:291-297:
\* the dict of model.transcribe, the empty result, or nothing when it raises
ResultKeys(result) ==
    CASE result = "empty result" -> {"text", "segments"}
      [] result = "final result" -> {"text", "segments", "language"}
      [] OTHER -> {}

\* stop() of the manager: audio_streaming.py:282-297 (the join of line 288
\* waits at most 5 s: the threads leave by MgrLoopExit, before or after)
MgrStop ==
    /\ is_streaming # "unset"
    /\ is_streaming' = "no"
    /\ ret' = [op |-> "stop", id |-> "none", stale |-> {}, steps |-> <<>>,
               result |-> IF mgr_audio_buffer # <<>>
                          THEN "raised: AttributeError" ELSE "empty result"]
    /\ UNCHANGED <<active_connections, now, mgr_audio_buffer, last_process_time,
                   streaming_callback, process_threads, connects, mgr_chunks,
                   disc_begun, last_pass>>
    /\ UNCHANGED notMgr

\* time passes
Tick(d) ==
    /\ now + d <= StartNow + MaxElapsed
    /\ now' = now + d
    /\ UNCHANGED <<active_connections, is_streaming, mgr_audio_buffer,
                   last_process_time, streaming_callback, process_threads, connects,
                   mgr_chunks, disc_begun, last_pass, ret>>
    /\ UNCHANGED notMgr

\* the session registry of the manager
MgrNext ==
    \/ \E c \in ConnIds, s \in SessionIds : Connect(c, s)
    \/ \E c \in ConnIds : ReceiveAudio(c)
    \/ \E c \in ConnIds : Disconnect(c)
    \/ Sweep
    \/ \E d \in TickSteps : Tick(d)

\* the streaming methods of the manager
StreamNext ==
    \/ \E c \in ConnIds, s \in SessionIds : Connect(c, s)
    \/ \E n \in ChunkSizes : MgrAddChunk(n)
    \/ MgrLoopPass
    \/ MgrLoopExit
    \/ MgrStop
    \/ \E d \in TickSteps : Tick(d)

(***************************************************************************)
(* transcription_callback_wrapper (audio_streaming.py:85-111) and the     *)
(* transcript_callback of CallHandler.handle_websocket (telephony.py:178). *)
(***************************************************************************)
NoDebounce == [at |-> 0, last |-> 0, admitted |-> FALSE, seq |-> 0, dropped |-> {}]

CbInit ==
    /\ wall_time = StartNow
    /\ results = <<>>
    /\ wrapper = [pc |-> "idle", seq |-> 0]
    /\ wrapper_data = [transcription_results |-> <<>>, last_activity |-> StartNow]
    /\ ready = <<>>
    /\ awaiting = {}
    /\ client_connected = TRUE
    /\ outbound = <<>>
    /\ ext_calls = <<>>
    /\ last_response_time = 0
    /\ intent_calls = <<>>
    /\ debounce = NoDebounce

\* a loop that starts the coroutine posted last first
Post_Front(queue, coro) == <<coro>> \o queue

\* asyncio.run_coroutine_threadsafe(coro, loop): the loop starts the coroutines
\* in the order they were posted, audio_streaming.py:93 and 97
Post(queue, coro) == Append(queue, coro)

\* the background thread calls the wrapper with its next result (is_final is
\* False in every result of _process_audio_loop, audio_streaming.py:311-314,
\* and transcript_callback only echoes it); the result is recorded and
\* send_transcript_update posted, audio_streaming.py:85-93
WrapperPostSend ==
    /\ wrapper.pc = "idle"
    /\ Len(results) < MaxResults
    /\ \E len \in TextLens :
        results' = Append(results, [textlen |-> len, is_final |-> FALSE])
    /\ LET seq == Len(results) + 1
       IN /\ wrapper_data' = [transcription_results |->
                                  Append(wrapper_data.transcription_results, seq),
                              last_activity |-> wall_time]
          /\ ready' = Post(ready, [kind |-> "send", seq |-> seq])
          /\ wrapper' = [pc |-> "posted", seq |-> seq]
    /\ UNCHANGED <<wall_time, awaiting, client_connected, outbound, ext_calls,
                   last_response_time, intent_calls, debounce>>
    /\ UNCHANGED notCb

\* the wrapper posts the external callback, audio_streaming.py:96-97
WrapperPostExt ==
    /\ wrapper.pc = "posted"
    /\ ready' = Post(ready, [kind |-> "ext", seq |-> wrapper.seq])
    /\ wrapper' = [pc |-> "idle", seq |-> 0]
    /\ UNCHANGED <<wall_time, results, wrapper_data, awaiting, client_connected,
                   outbound, ext_calls, last_response_time, intent_calls, debounce>>
    /\ UNCHANGED notCb

\* the event loop starts send_transcript_update, audio_streaming.py:100-111
RunSend ==
    /\ ready # <<>>
    /\ Head(ready).kind = "send"
    /\ ready' = Tail(ready)
    /\ outbound' = IF client_connected
                   THEN Append(outbound, [type |-> "audio_stream", seq |-> Head(ready).seq])
                   ELSE outbound
    /\ UNCHANGED <<wall_time, results, wrapper, wrapper_data, awaiting,
                   client_connected, ext_calls, last_response_time, intent_calls,
                   debounce>>
    /\ UNCHANGED notCb

\* the event loop starts transcript_callback: the state test and the first
\* send_json, where the coroutine is suspended, telephony.py:178-189
RunExt ==
    /\ ready # <<>>
    /\ Head(ready).kind = "ext"
    /\ ready' = Tail(ready)
    /\ ext_calls' = Append(ext_calls, Head(ready).seq)
    /\ IF client_connected
       THEN /\ outbound' = Append(outbound, [type |-> "transcription",
                                             seq |-> Head(ready).seq])
            /\ awaiting' = awaiting \cup {Head(ready).seq}
       ELSE UNCHANGED <<outbound, awaiting>>
    /\ UNCHANGED <<wall_time, results, wrapper, wrapper_data, client_connected,
                   last_response_time, intent_calls, debounce>>
    /\ UNCHANGED notCb

\* telephony.py:192-194: the trimmed text is empty or shorter than 5
TooShort(len) == len = 0 \/ len < MinTextLen

\* the debounce test with a window one second shorter
ShouldRespond_Window(current_time, last) == ~(current_time - last < MinInterval - 1)

\* the debounce test with the boundary excluded
ShouldRespond_Strict(current_time, last) == current_time - last > MinInterval

\* telephony.py:198-201: the reply is allowed
ShouldRespond(current_time, last) == ~(current_time - last < MinInterval)

\* transcript_callback is resumed after its send: the text filter, the debounce
\* test and the call of the intent pipeline, telephony.py:191-213
ResumeExt(seq) ==
    /\ seq \in awaiting
    /\ client_connected
    /\ awaiting' = awaiting \ {seq}
    /\ IF TooShort(results[seq].textlen)
       THEN UNCHANGED <<last_response_time, intent_calls, debounce>>
       ELSE /\ debounce' = [at |-> wall_time, last |-> last_response_time,
                            admitted |-> ShouldRespond(wall_time, last_response_time),
                            seq |-> seq,
                            dropped |-> IF ShouldRespond(wall_time, last_response_time)
                                        THEN debounce.dropped
                                        ELSE debounce.dropped \cup {seq}]
            /\ IF ShouldRespond(wall_time, last_response_time)
               THEN /\ last_response_time' = wall_time
                    /\ intent_calls' = Append(intent_calls, [at |-> wall_time, seq |-> seq])
               ELSE UNCHANGED <<last_response_time, intent_calls>>
    /\ UNCHANGED <<wall_time, results, wrapper, wrapper_data, ready, client_connected,
                   outbound, ext_calls>>
    /\ UNCHANGED notCb

\* the send of a suspended transcript_callback fails on a closed websocket:
\* the coroutine ends with the exception, telephony.py:183
FailExt(seq) ==
    /\ seq \in awaiting
    /\ ~client_connected
    /\ awaiting' = awaiting \ {seq}
    /\ UNCHANGED <<wall_time, results, wrapper, wrapper_data, ready, client_connected,
                   outbound, ext_calls, last_response_time, intent_calls, debounce>>
    /\ UNCHANGED notCb

\* the client goes away
ClientCloses ==
    /\ client_connected
    /\ client_connected' = FALSE
    /\ UNCHANGED <<wall_time, results, wrapper, wrapper_data, ready, awaiting,
                   outbound, ext_calls, last_response_time, intent_calls, debounce>>
    /\ UNCHANGED notCb

\* time passes for the handler
CbTick(d) ==
    /\ wall_time + d <= StartNow + MaxCbElapsed
    /\ wall_time' = wall_time + d
    /\ UNCHANGED <<results, wrapper, wrapper_data, ready, awaiting, client_connected,
                   outbound, ext_calls, last_response_time, intent_calls, debounce>>
    /\ UNCHANGED notCb

CbNext ==
    \/ WrapperPostSend
    \/ WrapperPostExt
    \/ RunSend
    \/ RunExt
    \/ \E seq \in 1..MaxResults : ResumeExt(seq)
    \/ \E seq \in 1..MaxResults : FailExt(seq)
    \/ ClientCloses
    \/ \E d \in CbTickSteps : CbTick(d)

(***************************************************************************)
(* GoogleTTSProvider and TTSAudioCache (google_tts.py, audio_cache.py).    *)
(* A string is the sequence of its characters; audio is named by the       *)
(* arguments the TTS service rendered it from.                             *)
(***************************************************************************)
TTSInit ==
    /\ tts_constructed = FALSE
    /\ cache_index = <<>>
    /\ cache_files = <<>>
    /\ tts_calls = 0
    /\ tts_synths = 0
    /\ tts_served = {}
    /\ tts_ok = <<>>
    /\ tts_ret = [args |-> <<>>, result |-> "none", audio |-> <<>>, calls |-> 0]

\* audio_cache.py:35-38: the md5 of "text|voice_id|language_code"; the digest
\* is a function of the joined string, and stands for it here
GenerateKey(text, voice_id, language_code) ==
    text \o <<"|">> \o voice_id \o <<"|">> \o language_code

\* the keys the calls of the model can make
TtsKeys == {GenerateKey(t, v, DefaultLanguage) : t \in TtsTexts, v \in TtsVoices}

\* audio_cache.py:40-57: the path of the entry, if it is in the index and the
\* file is there
IsCached(index, files, key) ==
    /\ key \in DOMAIN index
    /\ index[key] \in DOMAIN files

\* GoogleTTSProvider.__init__ (google_tts.py:16-24) with TTSAudioCache.__init__
\* (audio_cache.py:11-33): the index is loaded from cache_index.json, which holds
\* what earlier writers of the directory have cached
NewProvider(loaded) ==
    /\ ~tts_constructed
    /\ tts_constructed' = TRUE
    /\ cache_index' = [k \in loaded |-> k]
    /\ cache_files' = [p \in loaded |-> [of |-> p]]
    /\ UNCHANGED <<tts_calls, tts_synths, tts_served, tts_ok, tts_ret>>
    /\ UNCHANGED notTts

\* one pass through the body of synthesize for arguments that miss the cache
\* (google_tts.py:53-108): the service is called (77-81) and either raises or
\* delivers; what it delivers is lost at line 87, where gen_uuid_16().hex raises
\* AttributeError (gen_uuid_16 returns a str, helpers.py:19-29) before the file
\* is written and before cache_audio is reached. The handler retries with the
\* default voice (100-106) and raises again whatever the retry did, unless the
\* retry returns from inside the handler's try.
Synthesized(index, files, text, voice_id, language_code, served1, served2) ==
    LET key == GenerateKey(text, voice_id, language_code)
        dkey == GenerateKey(text, DefaultVoice, DefaultLanguage)
        a1 == IF served1 THEN {<<text, voice_id, language_code>>} ELSE {}
        a2 == IF served2 THEN {<<text, DefaultVoice, DefaultLanguage>>} ELSE {}
    IN  IF IsCached(index, files, key)
        THEN [result |-> "audio", audio |-> files[index[key]], calls |-> 0,
              served |-> {}]
        ELSE IF voice_id = DefaultVoice
        THEN [result |-> "raised", audio |-> <<>>, calls |-> 1, served |-> a1]
        ELSE IF IsCached(index, files, dkey)
        THEN [result |-> "audio", audio |-> files[index[dkey]], calls |-> 1,
              served |-> a1]
        ELSE [result |-> "raised", audio |-> <<>>, calls |-> 2,
              served |-> a1 \cup a2]

\* GoogleTTSProvider.synthesize (google_tts.py:26-108)
Synthesize(text, voice_id) ==
    /\ tts_constructed
    /\ tts_synths < MaxSynths
    /\ \E served1 \in BOOLEAN, served2 \in BOOLEAN :
          LET args == <<text, voice_id, DefaultLanguage>>
              r == Synthesized(cache_index, cache_files, text, voice_id,
                               DefaultLanguage, served1, served2)
          IN  /\ tts_ret' = [args |-> args, result |-> r.result, audio |-> r.audio,
                             calls |-> r.calls]
              /\ tts_calls' = tts_calls + r.calls
              /\ tts_served' = tts_served \cup r.served
              /\ tts_ok' = IF r.result = "audio" /\ args \notin DOMAIN tts_ok
                           THEN [a \in DOMAIN tts_ok \cup {args} |->
                                   IF a = args THEN r.audio ELSE tts_ok[a]]
                           ELSE tts_ok
    /\ tts_synths' = tts_synths + 1
    /\ UNCHANGED <<tts_constructed, cache_index, cache_files>>
    /\ UNCHANGED notTts

\* TTSAudioCache.clear_cache (audio_cache.py:84-100)
ClearCache ==
    /\ tts_constructed
    /\ DOMAIN cache_index # {}
    /\ cache_files' = [p \in DOMAIN cache_files \ {cache_index[k] : k \in DOMAIN cache_index}
                         |-> cache_files[p]]
    /\ cache_index' = <<>>
    /\ tts_served' = {}
    /\ tts_ok' = <<>>
    /\ UNCHANGED <<tts_constructed, tts_calls, tts_synths, tts_ret>>
    /\ UNCHANGED notTts

\* a cached file is removed from the directory by something else
FileRemoved(p) ==
    /\ tts_constructed
    /\ p \in DOMAIN cache_files
    /\ cache_files' = [q \in DOMAIN cache_files \ {p} |-> cache_files[q]]
    /\ tts_served' = {}
    /\ tts_ok' = <<>>
    /\ UNCHANGED <<tts_constructed, cache_index, tts_calls, tts_synths, tts_ret>>
    /\ UNCHANGED notTts

TTSNext ==
    \/ \E loaded \in SUBSET TtsKeys : NewProvider(loaded)
    \/ \E text \in TtsTexts, voice_id \in TtsVoices : Synthesize(text, voice_id)
    \/ ClearCache
    \/ \E p \in TtsKeys : FileRemoved(p)

(***************************************************************************)
(* ZeipoARIClient: the end of a call (ari_client.py:158-171, 217-246,      *)
(* 296-330). _end_call is run by the event loop thread, which dispatches   *)
(* the channel events one after the other, and by the thread that calls    *)
(* stop(); each delayed_hangup runs in a thread of its own.                *)
(***************************************************************************)
ARIInit ==
    /\ active_calls = {}
    /\ audio_streams = {}
    /\ stream_stops = [ch \in AriChannels |-> 0]
    /\ ari_callers = [p \in AriCallers |-> [pc |-> "idle", ch |-> "none", delay |-> FALSE,
                                            todo |-> {}]]
    /\ delayed = [d \in 1..MaxDelayed |-> [pc |-> "unborn", ch |-> "none"]]
    /\ ari_events = <<>>
    /\ ari_started = {}
    /\ ari_ended = {}
    /\ ari_raised = {}

\* number of '#' digits among the events handled so far
RECURSIVE Hashes(_)
Hashes(events) ==
    IF events = <<>> THEN 0
    ELSE (IF Head(events) = "ChannelDtmfReceived" THEN 1 ELSE 0) + Hashes(Tail(events))

\* _on_stasis_start (ari_client.py:182-215): the call is stored and its
\* AudioStream is started and stored
StasisStart(ch) ==
    /\ ari_callers["event"].pc = "idle"
    /\ ch \notin ari_started
    /\ ari_started' = ari_started \cup {ch}
    /\ active_calls' = active_calls \cup {ch}
    /\ audio_streams' = audio_streams \cup {ch}
    /\ UNCHANGED <<stream_stops, ari_callers, delayed, ari_events, ari_ended, ari_raised>>
    /\ UNCHANGED notAri

\* _on_stasis_end, _on_hangup_request and _on_dtmf with digit '#'
\* (ari_client.py:217-246): the handler's own test of active_calls, then
\* _end_call, with delay=2 for the digit
ChannelEvent(e, ch) ==
    /\ ari_callers["event"].pc = "idle"
    /\ ch \in ari_started
    /\ Len(ari_events) < MaxAriEvents
    /\ e = "ChannelDtmfReceived" => Hashes(ari_events) < MaxDelayed
    /\ ari_events' = Append(ari_events, e)
    /\ IF ch \in active_calls
       THEN ari_callers' = [ari_callers EXCEPT !["event"] =
                [pc |-> "check_calls", ch |-> ch, delay |-> (e = "ChannelDtmfReceived"),
                 todo |-> {}]]
       ELSE UNCHANGED ari_callers
    /\ UNCHANGED <<active_calls, audio_streams, stream_stops, delayed, ari_started,
                   ari_ended, ari_raised>>
    /\ UNCHANGED notAri

\* ZeipoARIClient.stop (ari_client.py:158-164): the keys are copied
ClientStop ==
    /\ ari_callers["stop"].pc = "idle"
    /\ ari_callers' = [ari_callers EXCEPT !["stop"] =
            [pc |-> "loop", ch |-> "none", delay |-> FALSE, todo |-> active_calls]]
    /\ UNCHANGED <<active_calls, audio_streams, stream_stops, delayed, ari_events,
                   ari_started, ari_ended, ari_raised>>
    /\ UNCHANGED notAri

\* ZeipoARIClient.stop: the next _end_call of the loop, or its end
\* (ari_client.py:163-171)
ClientStopNext ==
    /\ ari_callers["stop"].pc = "loop"
    /\ IF ari_callers["stop"].todo = {}
       THEN ari_callers' = [ari_callers EXCEPT !["stop"].pc = "done"]
       ELSE \E ch \in ari_callers["stop"].todo :
               ari_callers' = [ari_callers EXCEPT !["stop"] =
                   [pc |-> "check_calls", ch |-> ch, delay |-> FALSE, todo |-> @.todo \ {ch}]]
    /\ UNCHANGED <<active_calls, audio_streams, stream_stops, delayed, ari_events,
                   ari_started, ari_ended, ari_raised>>
    /\ UNCHANGED notAri

\* where a caller goes on when _end_call has returned
AfterEndCall(p) == IF p = "event" THEN "idle" ELSE "loop"

\* where a caller is after _end_call has raised: stop() is left by the
\* exception; the event loop thread either goes on with the next event or ends
\* (client.run, ari_client.py:173-180)
AfterRaise(p) == IF p = "event" THEN {"idle", "dead"} ELSE {"done"}

\* the exception of a statement of _end_call leaves the caller
Raise(p, at) ==
    /\ \E pc \in AfterRaise(p) : ari_callers' = [ari_callers EXCEPT ![p].pc = pc]
    /\ ari_raised' = ari_raised \cup {[thread |-> p, at |-> at]}

\* _end_call: if channel_id not in self.active_calls: return (ari_client.py:298-299)
EndCallCheck(p) ==
    /\ ari_callers[p].pc = "check_calls"
    /\ IF ari_callers[p].ch \in active_calls
       THEN /\ ari_callers' = [ari_callers EXCEPT ![p].pc = "check_streams"]
            /\ ari_ended' = ari_ended \cup {ari_callers[p].ch}
       ELSE /\ ari_callers' = [ari_callers EXCEPT ![p].pc = AfterEndCall(p)]
            /\ UNCHANGED ari_ended
    /\ UNCHANGED <<active_calls, audio_streams, stream_stops, delayed, ari_events,
                   ari_started, ari_raised>>
    /\ UNCHANGED notAri

\* _end_call: if channel_id in self.audio_streams (ari_client.py:302)
EndCallCheckStream(p) ==
    /\ ari_callers[p].pc = "check_streams"
    /\ ari_callers' = [ari_callers EXCEPT ![p].pc =
            IF ari_callers[p].ch \in audio_streams THEN "get_stream" ELSE "hangup"]
    /\ UNCHANGED <<active_calls, audio_streams, stream_stops, delayed, ari_events,
                   ari_started, ari_ended, ari_raised>>
    /\ UNCHANGED notAri

\* _end_call: self.audio_streams[channel_id], the lookup (ari_client.py:303)
EndCallGetStream(p) ==
    /\ ari_callers[p].pc = "get_stream"
    /\ IF ari_callers[p].ch \in audio_streams
       THEN /\ ari_callers' = [ari_callers EXCEPT ![p].pc = "stop_stream"]
            /\ UNCHANGED ari_raised
       ELSE Raise(p, "audio_streams[channel_id]")
    /\ UNCHANGED <<active_calls, audio_streams, stream_stops, delayed, ari_events,
                   ari_started, ari_ended>>
    /\ UNCHANGED notAri

\* _end_call: .stop() of the AudioStream (ari_client.py:303 with 57-69)
EndCallStopStream(p) ==
    /\ ari_callers[p].pc = "stop_stream"
    /\ stream_stops' = [stream_stops EXCEPT ![ari_callers[p].ch] = @ + 1]
    /\ ari_callers' = [ari_callers EXCEPT ![p].pc = "del_stream"]
    /\ UNCHANGED <<active_calls, audio_streams, delayed, ari_events, ari_started,
                   ari_ended, ari_raised>>
    /\ UNCHANGED notAri

\* _end_call: del self.audio_streams[channel_id] (ari_client.py:304)
EndCallDelStream(p) ==
    /\ ari_callers[p].pc = "del_stream"
    /\ IF ari_callers[p].ch \in audio_streams
       THEN /\ audio_streams' = audio_streams \ {ari_callers[p].ch}
            /\ ari_callers' = [ari_callers EXCEPT ![p].pc = "hangup"]
            /\ UNCHANGED ari_raised
       ELSE /\ Raise(p, "del audio_streams[channel_id]")
            /\ UNCHANGED audio_streams
    /\ UNCHANGED <<active_calls, stream_stops, delayed, ari_events, ari_started,
                   ari_ended>>
    /\ UNCHANGED notAri

\* _end_call: with a delay the delayed_hangup thread is started and the call
\* returns; without one the channel is hung up, an exception of which is
\* caught and logged (ari_client.py:307-327)
EndCallHangup(p) ==
    /\ ari_callers[p].pc = "hangup"
    /\ IF ari_callers[p].delay
       THEN /\ \E d \in 1..MaxDelayed :
                /\ delayed[d].pc = "unborn"
                /\ \A e \in 1..MaxDelayed : e < d => delayed[e].pc # "unborn"
                /\ delayed' = [delayed EXCEPT ![d] = [pc |-> "sleep", ch |-> ari_callers[p].ch]]
            /\ ari_callers' = [ari_callers EXCEPT ![p].pc = AfterEndCall(p)]
       ELSE /\ ari_callers' = [ari_callers EXCEPT ![p].pc = "del_call"]
            /\ UNCHANGED delayed
    /\ UNCHANGED <<active_calls, audio_streams, stream_stops, ari_events, ari_started,
                   ari_ended, ari_raised>>
    /\ UNCHANGED notAri

\* _end_call: del self.active_calls[channel_id] (ari_client.py:330)
EndCallDelCall(p) ==
    /\ ari_callers[p].pc = "del_call"
    /\ IF ari_callers[p].ch \in active_calls
       THEN /\ active_calls' = active_calls \ {ari_callers[p].ch}
            /\ ari_callers' = [ari_callers EXCEPT ![p].pc = AfterEndCall(p)]
            /\ UNCHANGED ari_raised
       ELSE /\ Raise(p, "del active_calls[channel_id]")
            /\ UNCHANGED active_calls
    /\ UNCHANGED <<audio_streams, stream_stops, delayed, ari_events, ari_started,
                   ari_ended>>
    /\ UNCHANGED notAri

\* delayed_hangup: the sleep is over and the hangup is tried, whose exception
\* is dropped (ari_client.py:309-314)
DelayedWake(d) ==
    /\ delayed[d].pc = "sleep"
    /\ delayed' = [delayed EXCEPT ![d].pc = "check"]
    /\ UNCHANGED <<active_calls, audio_streams, stream_stops, ari_callers, ari_events,
                   ari_started, ari_ended, ari_raised>>
    /\ UNCHANGED notAri

\* delayed_hangup: if channel_id in self.active_calls (ari_client.py:317)
DelayedCheck(d) ==
    /\ delayed[d].pc = "check"
    /\ delayed' = [delayed EXCEPT ![d].pc =
            IF delayed[d].ch \in active_calls THEN "del" ELSE "done"]
    /\ UNCHANGED <<active_calls, audio_streams, stream_stops, ari_callers, ari_events,
                   ari_started, ari_ended, ari_raised>>
    /\ UNCHANGED notAri

\* delayed_hangup: del self.active_calls[channel_id] (ari_client.py:318)
DelayedDel(d) ==
    /\ delayed[d].pc = "del"
    /\ delayed' = [delayed EXCEPT ![d].pc = "done"]
    /\ IF delayed[d].ch \in active_calls
       THEN /\ active_calls' = active_calls \ {delayed[d].ch}
            /\ UNCHANGED ari_raised
       ELSE /\ ari_raised' = ari_raised \cup {[thread |-> "delayed", at |-> "del active_calls[channel_id]"]}
            /\ UNCHANGED active_calls
    /\ UNCHANGED <<audio_streams, stream_stops, ari_callers, ari_events, ari_started,
                   ari_ended>>
    /\ UNCHANGED notAri

ARINext ==
    \/ \E ch \in AriChannels : StasisStart(ch)
    \/ \E e \in AriEvents, ch \in AriChannels : ChannelEvent(e, ch)
    \/ ClientStop
    \/ ClientStopNext
    \/ \E p \in AriCallers : EndCallCheck(p)
    \/ \E p \in AriCallers : EndCallCheckStream(p)
    \/ \E p \in AriCallers : EndCallGetStream(p)
    \/ \E p \in AriCallers : EndCallStopStream(p)
    \/ \E p \in AriCallers : EndCallDelStream(p)
    \/ \E p \in AriCallers : EndCallHangup(p)
    \/ \E p \in AriCallers : EndCallDelCall(p)
    \/ \E d \in 1..MaxDelayed : DelayedWake(d)
    \/ \E d \in 1..MaxDelayed : DelayedCheck(d)
    \/ \E d \in 1..MaxDelayed : DelayedDel(d)

(***************************************************************************)
(* SignalWireClient._process_event (signalwire_client.py:107-224): the     *)
(* events of the FreeSWITCH socket, processed one after the other by the   *)
(* listener (signalwire_client.py:63-105).                                 *)
(***************************************************************************)
SWInit ==
    /\ sw_active_calls = <<>>
    /\ sw_callbacks = <<>>
    /\ sw_events = 0
    /\ sw_open = <<>>
    /\ sw_created = {}
    /\ sw_last = [name |-> "none", uid |-> "none"]

\* event_data.get("variable_session_id", session_id), signalwire_client.py:130
CallKey(uid, variable_session_id) ==
    IF variable_session_id = "absent" THEN uid ELSE variable_session_id

\* a map with one more entry, and with one entry less
Put(m, k, v) == [x \in DOMAIN m \cup {k} |-> IF x = k THEN v ELSE m[x]]
Drop(m, k) == [x \in DOMAIN m \ {k} |-> m[x]]

\* _trigger_callback (signalwire_client.py:226-233), one callback registered
\* for the event type
Triggered(log, event_type, session_id) ==
    Append(log, [type |-> event_type, session_id |-> session_id])

\* CHANNEL_CREATE, signalwire_client.py:123-144
ChannelCreate(uid, variable_session_id) ==
    /\ sw_events < MaxSwEvents
    /\ uid \notin sw_created
    /\ LET session_id == CallKey(uid, variable_session_id)
       IN /\ sw_active_calls' = Put(sw_active_calls, session_id,
                                    [state |-> "created", session_id |-> session_id])
          /\ sw_callbacks' = Triggered(sw_callbacks, "call.created", session_id)
          /\ sw_open' = Put(sw_open, uid, session_id)
    /\ sw_created' = sw_created \cup {uid}
    /\ sw_events' = sw_events + 1
    /\ sw_last' = [name |-> "CHANNEL_CREATE", uid |-> uid]
    /\ UNCHANGED notSw

\* CHANNEL_ANSWER without variable_initial_tts, signalwire_client.py:146-167
ChannelAnswer(uid) ==
    /\ sw_events < MaxSwEvents
    /\ IF uid \in DOMAIN sw_active_calls
       THEN /\ sw_active_calls' = [sw_active_calls EXCEPT ![uid].state = "answered"]
            /\ sw_callbacks' = Triggered(sw_callbacks, "call.answered",
                                         sw_active_calls[uid].session_id)
       ELSE UNCHANGED <<sw_active_calls, sw_callbacks>>
    /\ sw_events' = sw_events + 1
    /\ sw_last' = [name |-> "CHANNEL_ANSWER", uid |-> uid]
    /\ UNCHANGED <<sw_open, sw_created>>
    /\ UNCHANGED notSw

\* CHANNEL_HANGUP, signalwire_client.py:169-194
ChannelHangup(uid) ==
    /\ sw_events < MaxSwEvents
    /\ IF uid \in DOMAIN sw_active_calls
       THEN LET session_id == sw_active_calls[uid].session_id
            IN /\ sw_callbacks' = Triggered(sw_callbacks, "call.ended", session_id)
               /\ sw_active_calls' = Drop(sw_active_calls, session_id)
       ELSE UNCHANGED <<sw_active_calls, sw_callbacks>>
    /\ sw_open' = Drop(sw_open, uid)
    /\ sw_events' = sw_events + 1
    /\ sw_last' = [name |-> "CHANNEL_HANGUP", uid |-> uid]
    /\ UNCHANGED sw_created
    /\ UNCHANGED notSw

\* DTMF with a digit, and CUSTOM SPEECH_DETECTED with a text,
\* signalwire_client.py:196-224
Notify(name, uid) ==
    /\ sw_events < MaxSwEvents
    /\ IF uid \in DOMAIN sw_active_calls
       THEN sw_callbacks' = Triggered(sw_callbacks,
                                      IF name = "DTMF" THEN "call.dtmf" ELSE "call.speech",
                                      sw_active_calls[uid].session_id)
       ELSE UNCHANGED sw_callbacks
    /\ sw_events' = sw_events + 1
    /\ sw_last' = [name |-> name, uid |-> uid]
    /\ UNCHANGED <<sw_active_calls, sw_open, sw_created>>
    /\ UNCHANGED notSw

SWNext ==
    \/ \E uid \in UniqueIds, z \in ZeipoSessionIds : ChannelCreate(uid, z)
    \/ \E uid \in UniqueIds : ChannelAnswer(uid)
    \/ \E uid \in UniqueIds : ChannelHangup(uid)
    \/ \E name \in {"DTMF", "CUSTOM"}, uid \in UniqueIds : Notify(name, uid)

Init ==
    /\ STTInit
    /\ MgrInit
    /\ CbInit
    /\ TTSInit
    /\ ARIInit
    /\ SWInit

STTNext ==
    \/ Start
    \/ AddCheck
    \/ AddPut
    \/ \E t \in ThreadIds : LoopExit(t)
    \/ \E t \in ThreadIds : LoopTake(t)
    \/ \E t \in ThreadIds : LoopPassDone(t)
    \/ \E t \in ThreadIds : LoopPassFail(t)
    \/ StopCached
    \/ StopBegin
    \/ StopPassDone
    \/ StopPassFail

SpecSTT == Init /\ [][STTNext]_vars

\* a transcriber that is started and fed, and not stopped
LoopNext ==
    \/ Start
    \/ AddCheck
    \/ AddPut
    \/ \E t \in ThreadIds : LoopTake(t)
    \/ \E t \in ThreadIds : LoopPassDone(t)
    \/ \E t \in ThreadIds : LoopPassFail(t)

SpecLoop == Init /\ [][LoopNext]_vars

SpecMgr == Init /\ [][MgrNext]_vars

\* the registry under the scheduling the code sets up: the clock advances, the
\* cleanup task runs an iteration every 60 seconds for as long as the process
\* lives (websockets.py:138-140, audio_streaming.py:236-260), and the handler
\* of every connection comes to its finally clause (telephony.py:279-286,
\* websockets.py:125-135)
SpecMgrFair ==
    /\ SpecMgr
    /\ WF_vars(\E d \in TickSteps : Tick(d))
    /\ WF_vars(Sweep)
    /\ \A c \in ConnIds : WF_vars(Disconnect(c))

SpecStream == Init /\ [][StreamNext]_vars

SpecCb == Init /\ [][CbNext]_vars

SpecTTS == Init /\ [][TTSNext]_vars

SpecARI == Init /\ [][ARINext]_vars

SpecSW == Init /\ [][SWNext]_vars

(***************************************************************************)
(* Properties.                                                             *)
(***************************************************************************)

\* the state of the session of a connection id, read off the manager: in the
\* map and no disconnect begun, in the map with a disconnect begun, gone
SessionState(c) ==
    IF Registered(active_connections, c)
    THEN IF c \in disc_begun THEN "FINALIZING" ELSE "ACTIVE"
    ELSE IF c \in disc_begun THEN "CLOSED" ELSE "NONE"

\* C1: a disconnect call never raises: it returns the summary or not-found,
\* and once it has returned the connection is not in the live map any more, so
\* that a second call finds nothing to tear down.
C1_DisconnectIdempotent ==
    ret.op = "disconnect" =>
        /\ ret.result \in {"summary", "not found"}
        /\ ~Registered(active_connections, ret.id)

\* C2: the audio buffer of a transcriber never holds more than
\* max_buffer_duration * sample_rate samples, whatever chunks were added.
C2_BufferBounded ==
    /\ Samples(audio_buffer) <= MaxBufferSamples
    /\ Sum(mgr_audio_buffer) <= MaxBufferSamples

\* C3: a connect with a connection id that is in the live map fails with
\* DuplicateSessionError and leaves the entry of that id as it was.
C3_DuplicateConnectRejected ==
    [][\A c \in ConnIds :
          (/\ Registered(active_connections, c)
           /\ connects' # connects
           /\ ret'.op = "connect" /\ ret'.id = c)
          => /\ ret'.result = "DuplicateSessionError"
             /\ active_connections'[c] = active_connections[c]]_vars

C5_SweepRemovesStale ==
    [][(ret'.op = "sweep" /\ now' = now)
          => LET stale == Stale(active_connections, now, MaxIdleTime)
             IN /\ DOMAIN active_connections' = (DOMAIN active_connections) \ stale
                /\ \A c \in DOMAIN active_connections' :
                      active_connections'[c] = active_connections[c]]_vars

\* C6: a background loop never begins a pass over less than 2.0 s of buffered
\* audio.
C6_NoPassBelowThreshold ==
    /\ \A t \in ThreadIds :
          threads[t].pc = "infer" => Samples(threads[t].audio) >= MinBufferSamples
    /\ last_pass.fired => last_pass.samples >= MinBufferSamples

\* the messages of one type that were handed to the websocket
OfType(type) == SelectSeq(outbound, LAMBDA m : m.type = type)

C8_LateResultDropped ==
    \A i \in 1..Len(delivered) : ~delivered[i].late

\* C9: a session in FINALIZING only stays there or becomes CLOSED, and while
\* it stays there nothing is applied to it.
C9_FinalizingIsOneWay ==
    [][\A c \in ConnIds :
          SessionState(c) = "FINALIZING"
          => /\ SessionState(c)' \in {"FINALIZING", "CLOSED"}
             /\ SessionState(c)' = "FINALIZING"
                   => active_connections'[c] = active_connections[c]]_vars

\* C10: a further stop() with no start() in between returns what the first
\* returned and calls the model no more.
C10_StopCached ==
    \A i, j \in 1..Len(stop_returns) :
        (i < j /\ stop_returns[i].run = stop_returns[j].run)
           => /\ stop_returns[j].res = stop_returns[i].res
              /\ ~stop_returns[j].inferred

\* C11: a step of add_audio_chunk on a transcriber that is stopped changes
\* neither the pending-chunk queue nor the audio buffer, also when the call
\* began before stop().
C11_LateAddIsNoOp ==
    [][(/\ ~is_running
        /\ \/ chunks_added' # chunks_added
           \/ (adder.pc = "put" /\ adder'.pc = "idle"))
       => /\ audio_queue' = audio_queue
          /\ audio_buffer' = audio_buffer]_vars

\* C12: a pass of the loop that ends in an exception calls no callback and
\* leaves the transcript, the running flag and the pending chunks as they
\* were, and its thread goes on with the loop (it is back in queue.get while
\* the transcriber is running).
C12_PassFailureContained ==
    [][\A t \in ThreadIds :
          threads'[t].failed = threads[t].failed + 1
          => /\ delivered' = delivered
             /\ transcript' = transcript
             /\ is_running' = is_running
             /\ audio_queue' = audio_queue
             /\ threads'[t].pc = IF is_running THEN "get" ELSE "exited"]_vars

\* a thread delivered a result of a pass that came after a failed pass of its
\* own, on a transcriber that is running
C12_Witness ==
    \E i \in 1..Len(delivered) : delivered[i].failed > 0 /\ ~delivered[i].late

\* C13: a disconnect in which a cleanup step failed still leaves the session
\* out of the live map.
C13_FailedCleanupStillCloses ==
    (ret.op = "disconnect" /\ ret.result \notin {"summary", "not found"})
        => ~Registered(active_connections, ret.id)

\* C14: a sweep calls disconnect for every stale session, whatever the calls
\* before it did, and ends in the sleep before the next iteration.
C14_SweepGoesOn ==
    [][(ret'.op = "sweep" /\ now' = now)
          => /\ Stale(active_connections, now, MaxIdleTime) \subseteq disc_begun'
             /\ ret'.stale = Stale(active_connections, now, MaxIdleTime)
             /\ ret'.result = "slept"]_vars

\* a sweep found two stale sessions, the disconnect of the first one failed
\* (it is still in the map) and the disconnect of the second one was begun
C14_Witness ==
    /\ ret.op = "sweep"
    /\ Cardinality(ret.stale) >= 2
    /\ ret.stale \subseteq disc_begun
    /\ \E c \in ret.stale : Registered(active_connections, c)

\* C16: a disconnect of a live session stops the transcriber, closes the
\* recording, removes the session from the map, in this order, and returns
\* the summary.
C16_DisconnectOrder ==
    (ret.op = "disconnect" /\ ret.result # "not found")
        => /\ ret.steps = <<"stop", "close", "remove">>
           /\ ret.result = "summary"

\* C15: a receive_audio call for a connection id that is not in the live map
\* is answered with UnknownSessionError and changes no session.
C15_UnknownReceiveRejected ==
    [][\A c \in ConnIds :
          (/\ ~Registered(active_connections, c)
           /\ ret'.op = "receive_audio" /\ ret'.id = c
           /\ now' = now)
          => /\ ret'.result = "raised: UnknownSessionError"
             /\ active_connections' = active_connections]_vars

\* C17: the intent pipeline is called only for a result that is final and
\* whose trimmed text is longer than 5 characters.
C17_IntentOnlyForFinalText ==
    \A i \in 1..Len(intent_calls) :
        /\ results[intent_calls[i].seq].is_final
        /\ results[intent_calls[i].seq].textlen > MinTextLen

\* C18: a debounce test admits the reply exactly when min_interval has passed
\* since last_response_time; an admitted test sets last_response_time to the
\* time of the test, a suppressing test leaves it and calls nothing; the first
\* test of a session admits; a suppressed result is never passed to the intent
\* pipeline later.
C18_DebounceCheck ==
    [][debounce' # debounce
          => LET ok == wall_time - last_response_time >= MinInterval
             IN /\ debounce'.admitted = ok
                /\ ok => /\ last_response_time' = wall_time
                         /\ intent_calls' = Append(intent_calls,
                                [at |-> wall_time, seq |-> debounce'.seq])
                /\ ~ok => /\ last_response_time' = last_response_time
                          /\ intent_calls' = intent_calls
                /\ debounce = NoDebounce => debounce'.admitted
                /\ \A i \in 1..Len(intent_calls') :
                      intent_calls'[i].seq \notin debounce'.dropped]_vars

\* a result was suppressed and a later one admitted
C18_Witness ==
    /\ debounce.dropped # {}
    /\ debounce.admitted
    /\ \A s \in debounce.dropped : s < debounce.seq
    /\ Len(intent_calls) >= 2

\* C19: a connect of one session leaves the audio buffer and the result
\* callback of every other live session as they were.
C19_SessionsIsolated ==
    [][(/\ connects' # connects
        /\ \E c \in DOMAIN active_connections : c # ret'.id)
       => /\ mgr_audio_buffer' = mgr_audio_buffer
          /\ streaming_callback' = streaming_callback]_vars

\* C20: a stop() call of the manager comes back with a result, whether or not
\* the loop threads have left.
C20_StopReturns ==
    ret.op = "stop" => ret.result \in {"empty result", "final result"}

\* C21: model.transcribe is never entered by the thread that called stop():
\* every pass, the final one included, runs in a loop thread.
C21_InferenceOffCaller ==
    stopper.pc # "infer"

\* C22: when stop() is called on a transcriber in its first run whose loop has
\* taken every chunk added, is in no pass and has had no pass fail, and the
\* chunks amount to 2.0 s or more, a result has been delivered to the callback.
C22_ResultBeforeStop ==
    [][(/\ is_running /\ ~is_running'
        /\ Runs = 1
        /\ audio_queue = <<>> /\ adder.pc = "idle"
        /\ \A t \in ThreadIds : threads[t].pc # "infer" /\ threads[t].failed = 0
        /\ Samples(audio_buffer) >= MinBufferSamples)
       => delivered # <<>>]_vars

\* C23: what a stop() call returns has a text and a segments entry, on
\* every path.
C23_StopResultShape ==
    /\ \A i \in 1..Len(stop_returns) : {"text", "segments"} \subseteq stop_returns[i].keys
    /\ ret.op = "stop" => {"text", "segments"} \subseteq ResultKeys(ret.result)

\* C24: once the TTS service has delivered the audio of (text, voice_id,
\* language_code) to a synthesize call, or a synthesize call with these arguments
\* has returned, and no cached file was removed and clear_cache was not called
\* since, a synthesize call with the same arguments returns audio, the same
\* audio as the call that returned before, and does not call the TTS service.
C24_SecondFromCache ==
    [][(/\ tts_synths' = tts_synths + 1
        /\ \/ tts_ret'.args \in tts_served
           \/ tts_ret'.args \in DOMAIN tts_ok)
       => /\ tts_ret'.result = "audio"
          /\ tts_calls' = tts_calls
          /\ tts_ret'.args \in DOMAIN tts_ok => tts_ret'.audio = tts_ok[tts_ret'.args]]_vars

\* C25: once stop() has returned and the loop threads have ended, every chunk
\* add_audio_chunk has queued is among the audio some inference pass (of the
\* loop or of stop) was given, unless the trim has removed it from the buffer:
\* no chunk is left in the queue or in the buffer that no pass has seen.
C25_NoChunkLost ==
    (/\ stop_returns # <<>>
     /\ ~is_running
     /\ stopper.pc = "idle"
     /\ adder.pc = "idle"
     /\ \A t \in ThreadIds : threads[t].pc \in {"unborn", "exited"})
    => ChunkIdsOf(audio_queue) \cup ChunkIdsOf(audio_buffer) \subseteq covered

\* C26: every session connect has registered is eventually out of the live
\* map, removed by the disconnect of its handler's teardown or by the idle sweep.
C26_EventuallyRemoved ==
    \A c \in ConnIds :
        Registered(active_connections, c) ~> ~Registered(active_connections, c)

\* C27: whatever the interleaving of StasisEnd, ChannelHangupRequest, the '#'
\* digit with its delayed hangup thread and stop() from another thread, no
\* exception leaves _end_call, the AudioStream of a channel is stopped at most
\* once, and once every thread has finished with a channel an _end_call has
\* begun to end, the channel is in neither active_calls nor audio_streams.
C27_EndCallOnce ==
    /\ \A r \in ari_raised : r.thread \notin AriCallers
    /\ \A ch \in AriChannels : stream_stops[ch] <= 1
    /\ (/\ \A p \in AriCallers : ari_callers[p].pc \in {"idle", "done", "dead"}
        /\ \A d \in 1..MaxDelayed : delayed[d].pc \in {"unborn", "done"})
       => \A ch \in ari_ended : ch \notin active_calls /\ ch \notin audio_streams

\* C28: a transcriber has at most one live loop thread: while it is running,
\* at most one _process_stream thread is waiting for a chunk or inside a pass,
\* also after a stop() and a second start().
C28_OneLoopThread ==
    is_running => Cardinality({t \in ThreadIds : threads[t].pc \in {"get", "infer"}}) <= 1

\* C29: the chunk whose dequeue fires a pass is the third chunk after the one
\* that fired the pass before it; stated here for a pass that comes next
\* after a pass that succeeded (no pass has failed since its callback).
C29_EveryThirdChunk ==
    \A t \in ThreadIds :
        (/\ threads[t].pc = "infer"
         /\ delivered # <<>>
         /\ delivered[Len(delivered)].failed = threads[t].failed)
        => LET before == delivered[Len(delivered)].res
               this == threads[t].audio
           IN this[Len(this)].id = before[Len(before)].id + PassEvery

\* C30: the CHANNEL_HANGUP of a Unique-ID whose CHANNEL_CREATE has put a call
\* into active_calls removes that call and triggers one call.ended callback for
\* it, with or without variable_session_id on the create; an ANSWER, HANGUP, DTMF
\* or speech event for a Unique-ID with no such call changes neither the map
\* nor the callbacks.
C30_HangupRemovesCall ==
    [][sw_events' = sw_events + 1 /\ sw_last'.name # "CHANNEL_CREATE"
       => IF sw_last'.uid \in DOMAIN sw_open
          THEN sw_last'.name = "CHANNEL_HANGUP"
               => /\ sw_open[sw_last'.uid] \notin DOMAIN sw_active_calls'
                  /\ sw_callbacks' = Triggered(sw_callbacks, "call.ended",
                                               sw_open[sw_last'.uid])
          ELSE /\ sw_active_calls' = sw_active_calls
               /\ sw_callbacks' = sw_callbacks]_vars

====
